---- MODULE Spec2Model ----
(***************************************************************************)
(* TrafficSimulator2D: the road graph builder and the Dijkstra router of   *)
(* map_utils.py and the simulation engine of simulator.py (traffic lights, *)
(* the intersection reservation registry `occupied`, Car.update and the    *)
(* Simulator.update / spawn_car orchestration).                            *)
(*                                                                         *)
(* Numbers.  Positions are pixels, speeds are pixels per second, light     *)
(* durations are seconds, all as in the source.  The source obtains dt as  *)
(* clock.tick(60) / 1000.0, an integer number of milliseconds over 1000:   *)
(* the model keeps every time value in milliseconds (an integer) and       *)
(* divides by MsPerSecond where the source uses seconds.  Python floats    *)
(* are modelled by exact integer arithmetic; the maps and frame times are  *)
(* chosen such that every quantity the model stores is an integer.         *)
(* Distances are compared through their squares (d < 25 iff d*d < 625).    *)
(*                                                                         *)
(* Node ids are the strings of the source ("r1_L", "i1_2"); a hub id, an   *)
(* int in the source, is written as its decimal string and recognised by   *)
(* IsInt, so that Python's refusal to order an int against a str is kept.  *)
(***************************************************************************)
EXTENDS Integers, Sequences, FiniteSets, TLC

\* ------------------------------------------------------------------ bounds
\* Ticks stop once the summed frame time reaches MaxClock milliseconds.
MaxClock == 3400
\* At most MaxSpawn vehicles are ever created (next_car_id <= MaxSpawn + 1).
MaxSpawn == 2

\* ------------------------------------------------------- program constants
MsPerSecond == 1000        \* simulator.py:245   dt = tick(60) / 1000.0
LeaderRadius == 25         \* simulator.py:88    dist < 25
HardGap == 18              \* simulator.py:93    min_gap < 18
SoftGap == 40              \* simulator.py:95    min_gap < 40
ApproachRadius == 80       \* simulator.py:103   dist < 80
StopOffset == 25           \* simulator.py:104   light_pos - dir_vec * 25
StopRadius == 35           \* simulator.py:108   (stop_point - pos).length() < 35
BlockRadius == 60          \* simulator.py:112   < 60
AcquireRadius == 40        \* simulator.py:115   < 40
ReleaseRadius == 60        \* simulator.py:122   > 60
SymbolRadius == 50         \* simulator.py:131   dist < 50
SlowSpeed == 40            \* simulator.py:132   min(max_speed, 40)
LaneOffset == 5            \* simulator.py:154   perp * (5 if ... else -5)
ShortGap == 40             \* map_utils.py:146   d < 40.0
hub_snap_dist == 80        \* map_utils.py:34    hub_snap_dist=80
CongestionPenalty == 10    \* map_utils.py:200   t * 10.0

\* ----------------------------------------------------------------- vectors
VAdd(a, b) == <<a[1] + b[1], a[2] + b[2]>>
VSub(a, b) == <<a[1] - b[1], a[2] - b[2]>>
VScale(a, k) == <<a[1] * k, a[2] * k>>
Dot(a, b) == a[1] * b[1] + a[2] * b[2]
Len2(a) == Dot(a, a)
Abs(n) == IF n < 0 THEN 0 - n ELSE n
Sgn(n) == IF n > 0 THEN 1 ELSE IF n < 0 THEN 0 - 1 ELSE 0
Min(a, b) == IF a < b THEN a ELSE b
Max(a, b) == IF a > b THEN a ELSE b
Sq(n) == n * n

\* math.hypot / Vector2.length(): exact on the distances the maps produce
\* (points on a common axis), the integer part otherwise.
ISqrt(n) == CHOOSE k \in 0..n : k * k <= n /\ n < (k + 1) * (k + 1)

_dist(a, b) == ISqrt(Len2(VSub(a, b)))

\* ---------------------------------------------------------------- node ids
\* f"r{rid}_{part}", f"i{a}_{b}" and the hub id h['id'].
RoadNodeId(rid, part) == "r" \o ToString(rid) \o "_" \o part
InterId(a, b) == "i" \o ToString(a) \o "_" \o ToString(b)
HubId(hid) == ToString(hid)

RoadParts == {"L", "M", "R", "T", "B"}

\* The ids of a map whose road and hub ids are 1..9 (tables, built once).
IntIds == {ToString(n) : n \in 0..9}
IntOf == [nid \in IntIds |-> CHOOSE n \in 0..9 : nid = ToString(n)]
RoadIdsOf == [rid \in 1..9 |-> {RoadNodeId(rid, p) : p \in RoadParts}]

\* type(nid) is int, and the int it is
IsInt(nid) == nid \in IntIds
IntVal(nid) == IntOf[nid]

\* nid.startswith(f"r{rid}_"), and f"r{rid}_" in str(nid): among the ids the
\* builder creates, exactly the nodes of road rid.
StartsWithRoad(nid, rid) == nid \in RoadIdsOf[rid]

\* ------------------------------------------------------------ map_utils.py
\* A graph under construction: nodes (id -> position), the insertion order of
\* the dict `nodes`, and edges (id -> list of <<neighbour, weight>>).
EmptyGraph == [nodes |-> <<>>, order |-> <<>>, edges |-> <<>>]

\* d[k] = v on a dict: the key keeps its place when it is already present.
DictPut(d, k, v) == [x \in (DOMAIN d) \cup {k} |-> IF x = k THEN v ELSE d[x]]

\* edges.get(n, []) on the defaultdict
EdgesGet(edges, n) == IF n \in DOMAIN edges THEN edges[n] ELSE <<>>

\* nodes[nid] = pos
PutNode(g, nid, pos) ==
    [g EXCEPT !.nodes = DictPut(g.nodes, nid, pos),
              !.order = IF nid \in DOMAIN g.nodes THEN @ ELSE Append(@, nid)]

\* edges[u].append((v, w))
AppendEdge(g, u, v, w) ==
    [g EXCEPT !.edges = DictPut(g.edges, u, Append(EdgesGet(g.edges, u), <<v, w>>))]

\* An append in one direction only.
ConnectOneWay(g, u, v, w) == AppendEdge(g, u, v, w)

\* edges[u].append((v, w)); edges[v].append((u, w))
Connect(g, u, v, w) == AppendEdge(AppendEdge(g, u, v, w), v, u, w)

\* An overlap test that also accepts rectangles that only touch.
_rect_overlap_closed(a, b) ==
    LET x1 == Max(a.x, b.x)
        y1 == Max(a.y, b.y)
        x2 == Min(a.x + a.w, b.x + b.w)
        y2 == Min(a.y + a.h, b.y + b.h)
    IN  IF x2 >= x1 /\ y2 >= y1
        THEN <<[x |-> x1, y |-> y1, w |-> x2 - x1, h |-> y2 - y1]>>
        ELSE <<>>

\* _rect_overlap(a, b): the overlap rectangle, or None (here <<>>).
_rect_overlap(a, b) ==
    LET x1 == Max(a.x, b.x)
        y1 == Max(a.y, b.y)
        x2 == Min(a.x + a.w, b.x + b.w)
        y2 == Min(a.y + a.h, b.y + b.h)
    IN  IF x2 > x1 /\ y2 > y1
        THEN <<[x |-> x1, y |-> y1, w |-> x2 - x1, h |-> y2 - y1]>>
        ELSE <<>>

\* TRUE once v has been computed: a loop tests it on the graph it is given, so
\* that a step is evaluated before the next one starts.
Done(v) == v = v

\* Stage 1, one road: three nodes on the centreline, chained.
RoadChain(g, r) ==
    LET cx == r.x + r.w \div 2
        cy == r.y + r.h \div 2
        horizontal == r.w >= r.h
        n1 == IF horizontal THEN RoadNodeId(r.id, "L") ELSE RoadNodeId(r.id, "T")
        n2 == RoadNodeId(r.id, "M")
        n3 == IF horizontal THEN RoadNodeId(r.id, "R") ELSE RoadNodeId(r.id, "B")
        p1 == IF horizontal THEN <<r.x, cy>> ELSE <<cx, r.y>>
        p2 == <<cx, cy>>
        p3 == IF horizontal THEN <<r.x + r.w, cy>> ELSE <<cx, r.y + r.h>>
        g3 == PutNode(PutNode(PutNode(g, n1, p1), n2, p2), n3, p3)
    IN  Connect(Connect(g3, n1, n2, _dist(p1, p2)), n2, n3, _dist(p2, p3))

RECURSIVE Stage1(_, _, _)
Stage1(g, roads, i) ==
    IF Done(g) /\ i > Len(roads) THEN g
    ELSE Stage1(RoadChain(g, roads[i]), roads, i + 1)

\* The first node of `ids` (from position k on) nearest to p, strictly nearer
\* than `best` (d < best_d): the scan of lines 116-125.  best = "" is None.
RECURSIVE Nearest(_, _, _, _, _, _)
Nearest(nodes, ids, p, k, best, best_d2) ==
    IF k > Len(ids) THEN <<best, best_d2>>
    ELSE LET d2 == Len2(VSub(nodes[ids[k]], p))
         IN  IF best = "" \/ d2 < best_d2
             THEN Nearest(nodes, ids, p, k + 1, ids[k], d2)
             ELSE Nearest(nodes, ids, p, k + 1, best, best_d2)

\* [nid for nid in nodes.keys() if nid.startswith(f"r{rid}_")]
RECURSIVE RoadNodes(_, _, _)
RoadNodes(order, rid, k) ==
    IF k > Len(order) THEN <<>>
    ELSE (IF StartsWithRoad(order[k], rid) THEN <<order[k]>> ELSE <<>>)
         \o RoadNodes(order, rid, k + 1)

\* Stage 2, one pair of roads.
Intersect(g, a, b) ==
    LET ov == _rect_overlap(a, b)
    IN  IF ov = <<>> THEN g
        ELSE LET p == <<ov[1].x + ov[1].w \div 2, ov[1].y + ov[1].h \div 2>>
                 inter_id == InterId(a.id, b.id)
                 g1 == PutNode(g, inter_id, p)
                 na == Nearest(g1.nodes, RoadNodes(g1.order, a.id, 1), p, 1, "", 0)
                 nb == Nearest(g1.nodes, RoadNodes(g1.order, b.id, 1), p, 1, "", 0)
                 g2 == IF na[1] # "" THEN Connect(g1, inter_id, na[1], ISqrt(na[2])) ELSE g1
             IN  IF nb[1] # "" THEN Connect(g2, inter_id, nb[1], ISqrt(nb[2])) ELSE g2

RECURSIVE Stage2(_, _, _, _)
Stage2(g, roads, i, j) ==
    IF Done(g) /\ i > Len(roads) THEN g
    ELSE IF j > Len(roads) THEN Stage2(g, roads, i + 1, i + 2)
    ELSE Stage2(Intersect(g, roads[i], roads[j]), roads, i, j + 1)

\* A stitch that does not look whether the two nodes are already connected.
StitchAgain(g, n1, n2) ==
    LET d2 == Len2(VSub(g.nodes[n1], g.nodes[n2]))
    IN  IF d2 < Sq(ShortGap) THEN Connect(g, n1, n2, ISqrt(d2)) ELSE g

\* Stage 3, one pair of nodes: connect them when not yet connected and closer
\* than the short-gap threshold.
Stitch(g, n1, n2) ==
    LET already == \E k \in 1..Len(EdgesGet(g.edges, n1)) : EdgesGet(g.edges, n1)[k][1] = n2
        d2 == Len2(VSub(g.nodes[n1], g.nodes[n2]))
    IN  IF already THEN g
        ELSE IF d2 < Sq(ShortGap) THEN Connect(g, n1, n2, ISqrt(d2))
        ELSE g

\* for i in range(len(ids)): for j in range(i + 1, len(ids)): the index pairs
\* in the order the two loops visit them.
NodePairs(n) ==
    LET S == {p \in (1..n) \X (1..n) : p[1] < p[2]}
        Rank(p) == Cardinality({q \in S : q[1] < p[1] \/ (q[1] = p[1] /\ q[2] <= p[2])})
    IN  [k \in 1..Cardinality(S) |-> CHOOSE p \in S : Rank(p) = k]

\* Stage 3 over the pairs lo..hi of that order, one after the other (the
\* range is folded by halves, which visits the pairs in the same order).
RECURSIVE Stage3(_, _, _, _, _)
Stage3(g, ids, pairs, lo, hi) ==
    IF Done(g) /\ lo > hi THEN g
    ELSE IF lo = hi THEN Stitch(g, ids[pairs[lo][1]], ids[pairs[lo][2]])
    ELSE Stage3(Stage3(g, ids, pairs, lo, (lo + hi) \div 2),
                ids, pairs, (lo + hi) \div 2 + 1, hi)

\* for nid in nodes.items(): if nid == hid: continue
RECURSIVE Without(_, _)
Without(s, x) ==
    IF s = <<>> THEN <<>>
    ELSE (IF Head(s) = x THEN <<>> ELSE <<Head(s)>>) \o Without(Tail(s), x)

\* Stage 4, one hub: the nearest node of any kind, joined when within the
\* snap distance.
AttachHub(g, h) ==
    LET hid == HubId(h.id)
        p == <<h.x, h.y>>
        g1 == [PutNode(g, hid, p) EXCEPT !.edges = DictPut(g.edges, hid, <<>>)]
        nb == Nearest(g1.nodes, Without(g1.order, hid), p, 1, "", 0)
    IN  IF nb[1] # "" /\ nb[2] <= Sq(hub_snap_dist)
        THEN Connect(g1, hid, nb[1], ISqrt(nb[2]))
        ELSE g1

RECURSIVE Stage4(_, _, _)
Stage4(g, hubs, i) ==
    IF Done(g) /\ i > Len(hubs) THEN g
    ELSE Stage4(AttachHub(g, hubs[i]), hubs, i + 1)

build_graph(mapdata) ==
    LET g1 == Stage1(EmptyGraph, mapdata.roads, 1)
        g2 == Stage2(g1, mapdata.roads, 1, 2)
        pairs == NodePairs(Len(g2.order))
        g3 == Stage3(g2, g2.order, pairs, 1, Len(pairs))
    IN  Stage4(g3, mapdata.hubs, 1)


\* ------------------------------------------------------- find_path (router)
\* Python's order on str, for the node ids the builder creates with ids 1..9
\* and for the one-letter ids "A".."E": a digit sorts before a capital, a
\* capital before "i", "i" before "r"; "r1_B" < "r1_L" < "r1_M" < "r1_R"
\* < "r1_T" < "r2_B".  StrKey is the rank of str(nid) in that order.
PartKey(p) == CASE p = "B" -> 1 [] p = "L" -> 2 [] p = "M" -> 3 [] p = "R" -> 4 [] p = "T" -> 5

LetterIds == {"A", "B", "C", "D", "E"}

StrKeys ==
    [nid \in IntIds |-> IntOf[nid]]
    @@ [nid \in LetterIds |->
          CASE nid = "A" -> 11 [] nid = "B" -> 12 [] nid = "C" -> 13
            [] nid = "D" -> 14 [] nid = "E" -> 15]
    @@ [nid \in {InterId(a, b) : a, b \in 1..9} |->
          LET ab == CHOOSE ab \in (1..9) \X (1..9) : nid = InterId(ab[1], ab[2])
          IN  100 + 10 * ab[1] + ab[2]]
    @@ [nid \in {RoadNodeId(r, p) : r \in 1..9, p \in RoadParts} |->
          LET rp == CHOOSE rp \in (1..9) \X RoadParts : nid = RoadNodeId(rp[1], rp[2])
          IN  1000 + 10 * rp[1] + PartKey(rp[2])]

StrKey(nid) == StrKeys[nid]

\* a < b on two node ids raises TypeError when one is an int and the other a
\* str; otherwise ints compare as numbers and strs as strings.
Comparable(a, b) == IsInt(a) = IsInt(b)
IdLess(a, b) == IF IsInt(a) THEN IntVal(a) < IntVal(b) ELSE StrKey(a) < StrKey(b)

\* list < list from position k on: the first differing pair decides, a proper
\* prefix is smaller.  "lt", "ge", or "err" (TypeError).
RECURSIVE PathLt(_, _, _)
PathLt(p, q, k) ==
    IF k > Len(p) \/ k > Len(q) THEN (IF Len(p) < Len(q) THEN "lt" ELSE "ge")
    ELSE IF p[k] = q[k] THEN PathLt(p, q, k + 1)
    ELSE IF ~Comparable(p[k], q[k]) THEN "err"
    ELSE IF IdLess(p[k], q[k]) THEN "lt" ELSE "ge"

\* (cost, node, path) < (cost, node, path), the tuple order heapq relies on.
ItemLt(a, b) ==
    IF a.cost # b.cost THEN (IF a.cost < b.cost THEN "lt" ELSE "ge")
    ELSE IF a.node # b.node
    THEN (IF ~Comparable(a.node, b.node) THEN "err"
          ELSE IF IdLess(a.node, b.node) THEN "lt" ELSE "ge")
    ELSE PathLt(a.path, b.path, 1)

HeapErr == [ok |-> FALSE, heap |-> <<>>]

\* heapq._siftdown(heap, startpos, pos); positions are 0-based as in heapq.
RECURSIVE _siftdown(_, _, _, _)
_siftdown(heap, startpos, pos, newitem) ==
    IF pos > startpos
    THEN LET parentpos == (pos - 1) \div 2
             parent == heap[parentpos + 1]
             c == ItemLt(newitem, parent)
         IN  IF c = "err" THEN HeapErr
             ELSE IF c = "lt"
             THEN _siftdown([heap EXCEPT ![pos + 1] = parent], startpos, parentpos, newitem)
             ELSE [ok |-> TRUE, heap |-> [heap EXCEPT ![pos + 1] = newitem]]
    ELSE [ok |-> TRUE, heap |-> [heap EXCEPT ![pos + 1] = newitem]]

\* heapq._siftup(heap, pos)
RECURSIVE _siftup(_, _, _, _)
_siftup(heap, startpos, pos, newitem) ==
    LET endpos == Len(heap)
        childpos == 2 * pos + 1
        rightpos == childpos + 1
    IN  IF childpos < endpos
        THEN LET c == IF rightpos < endpos
                      THEN ItemLt(heap[childpos + 1], heap[rightpos + 1])
                      ELSE "lt"
                 cp == IF c = "lt" THEN childpos ELSE rightpos
             IN  IF c = "err" THEN HeapErr
                 ELSE _siftup([heap EXCEPT ![pos + 1] = heap[cp + 1]], startpos, cp, newitem)
        ELSE _siftdown(heap, startpos, pos, newitem)

\* heapq.heappush(heap, item)
heappush(heap, item) == _siftdown(Append(heap, item), 0, Len(heap), item)

\* heapq.heappop(heap): [ok, item, heap]
heappop(heap) ==
    LET lastelt == heap[Len(heap)]
        rest == SubSeq(heap, 1, Len(heap) - 1)
    IN  IF rest = <<>> THEN [ok |-> TRUE, item |-> lastelt, heap |-> <<>>]
        ELSE LET r == _siftup([rest EXCEPT ![1] = lastelt], 0, 0, lastelt)
             IN  [ok |-> r.ok, item |-> rest[1], heap |-> r.heap]

\* tuple(sorted((str(node), str(nbr))))
EdgeKey(u, v) == IF StrKey(v) < StrKey(u) THEN <<v, u>> ELSE <<u, v>>

\* traffic_counts.get(key, 0)
TrafficGet(tc, key) == IF key \in DOMAIN tc THEN tc[key] ELSE 0

\* cost + w + t * 10.0
StepCost(cost, w, t) == cost + w + t * CongestionPenalty

\* The results of find_path: a path, None, or the TypeError of an int/str
\* comparison inside heapq.
PathResult(path) == [kind |-> "path", path |-> path]
NoPath == [kind |-> "none", path |-> <<>>]
RouteError == [kind |-> "error", path |-> <<>>]

\* for nbr, w in edges.get(node, []): ... heappush(...)   (lines 197-202)
RECURSIVE PushNeighbours(_, _, _, _, _, _)
PushNeighbours(pq, adj, k, item, seen, tc) ==
    IF k > Len(adj) THEN [ok |-> TRUE, heap |-> pq]
    ELSE LET nbr == adj[k][1]
             nc == StepCost(item.cost, adj[k][2], TrafficGet(tc, EdgeKey(item.node, nbr)))
         IN  IF nbr \notin DOMAIN seen \/ nc < seen[nbr]
             THEN LET r == heappush(pq, [cost |-> nc, node |-> nbr,
                                         path |-> Append(item.path, nbr)])
                  IN  IF r.ok THEN PushNeighbours(r.heap, adj, k + 1, item, seen, tc)
                      ELSE HeapErr
             ELSE PushNeighbours(pq, adj, k + 1, item, seen, tc)

\* while pq: ...   (lines 190-203)
RECURSIVE Search(_, _, _, _, _)
Search(edges, goal_id, tc, pq, seen) ==
    IF pq = <<>> THEN NoPath
    ELSE LET p == heappop(pq)
             node == p.item.node
         IN  IF ~p.ok THEN RouteError
             ELSE IF node = goal_id THEN PathResult(p.item.path)
             ELSE IF node \in DOMAIN seen /\ seen[node] <= p.item.cost
             THEN Search(edges, goal_id, tc, p.heap, seen)
             ELSE LET seen2 == DictPut(seen, node, p.item.cost)
                      r == PushNeighbours(p.heap, EdgesGet(edges, node), 1, p.item, seen2, tc)
                  IN  IF r.ok THEN Search(edges, goal_id, tc, r.heap, seen2)
                      ELSE RouteError

find_path(edges, start_id, goal_id, traffic_counts) ==
    IF start_id \notin DOMAIN edges \/ goal_id \notin DOMAIN edges THEN NoPath
    ELSE Search(edges, goal_id, traffic_counts,
                <<[cost |-> 0, node |-> start_id, path |-> <<start_id>>]>>, <<>>)


\* ------------------------------------------------------------ simulator.py
\* TrafficLight.__init__: t starts at the phase offset.
TrafficLight(data) ==
    [x |-> data.x, y |-> data.y, green |-> data.green, red |-> data.red,
     offset |-> data.offset, t |-> data.offset * MsPerSecond]

\* A timer that wraps at the end of the cycle instead of accumulating.
LightUpdateWrapped(lt, dt) ==
    [lt EXCEPT !.t = (@ + dt) % ((lt.green + lt.red) * MsPerSecond)]

\* TrafficLight.update(dt): self.t += dt
LightUpdate(lt, dt) == [lt EXCEPT !.t = @ + dt]

\* A signal that gives vertical travel the phase of horizontal travel.
is_green_for_any(lt, dir_vec) ==
    lt.t % ((lt.green + lt.red) * MsPerSecond) < lt.green * MsPerSecond

\* TrafficLight.is_green_for(dir_vec)
is_green_for(lt, dir_vec) ==
    LET cycle == lt.green + lt.red
        phase == lt.t % (cycle * MsPerSecond)
        horizontal == Abs(dir_vec[1]) > Abs(dir_vec[2])
    IN  IF horizontal THEN phase < lt.green * MsPerSecond
        ELSE phase >= lt.green * MsPerSecond

\* Car.__init__
Car(path_nodes, nodes, cid, speed) ==
    [id |-> cid, path |-> path_nodes, edge_idx |-> 0, progress |-> 0,
     speed |-> speed, finished |-> FALSE, intersection_target |-> 0,
     pos |-> nodes[path_nodes[1]]]

\* Simulator.get_edge_type(edge): the type of the first road one of whose
\* nodes the edge touches, else 'small'.
RECURSIVE get_edge_type(_, _, _, _)
get_edge_type(roads, k, n1, n2) ==
    IF k > Len(roads) THEN "small"
    ELSE IF StartsWithRoad(n1, roads[k].id) \/ StartsWithRoad(n2, roads[k].id)
    THEN roads[k].type
    ELSE get_edge_type(roads, k + 1, n1, n2)

\* Vector2.normalize() of an edge vector.  Every edge of the maps below lies
\* on an axis, where the unit vector is exact.
Normalize(v) == <<Sgn(v[1]), Sgn(v[2])>>

\* lines 81-91: the squared distance to the nearest other active car that is
\* ahead and closer than 25, or -1 when there is no leader.
RECURSIVE LeaderGap2(_, _, _, _, _)
LeaderGap2(self, dir_vec, cs, k, min_gap2) ==
    IF k > Len(cs) THEN min_gap2
    ELSE LET other == cs[k]
             rel == VSub(other.pos, self.pos)
             d2 == Len2(rel)
         IN  IF other.id = self.id \/ other.finished
             THEN LeaderGap2(self, dir_vec, cs, k + 1, min_gap2)
             ELSE IF d2 < Sq(LeaderRadius) /\ Dot(rel, dir_vec) > 0
                     /\ (min_gap2 < 0 \/ d2 < min_gap2)
             THEN LeaderGap2(self, dir_vec, cs, k + 1, d2)
             ELSE LeaderGap2(self, dir_vec, cs, k + 1, min_gap2)

\* lines 92-96
FollowSpeed(speed, gap2) ==
    IF gap2 >= 0 /\ gap2 < Sq(HardGap) THEN 0
    ELSE IF gap2 >= 0 /\ gap2 < Sq(SoftGap) THEN Min(speed, speed \div 2)
    ELSE speed

\* lines 115-117: self.sim.occupied[lt] = self
Acquire(occ, lt, cid) == DictPut(occ, lt, cid)

\* A release that pops the entry whoever owns it.
ReleaseAlways(occ, lt, cid) == [x \in (DOMAIN occ) \ {lt} |-> occ[x]]

\* lines 123-124: pop the entry when this car owns it
Release(occ, lt, cid) ==
    IF lt \in DOMAIN occ /\ occ[lt] = cid
    THEN [x \in (DOMAIN occ) \ {lt} |-> occ[x]]
    ELSE occ

\* A light step in which a reservation held by another car does not stop the
\* car.
LightStepUnblocked(self, dir_vec, lt, i, st) ==
    LET light_pos == <<lt.x, lt.y>>
        to_light == VSub(light_pos, self.pos)
        d2 == Len2(to_light)
        stop_point == VSub(light_pos, VScale(dir_vec, StopOffset))
        green == is_green_for(lt, dir_vec)
        red_stop == ~green /\ Len2(VSub(stop_point, self.pos)) < Sq(StopRadius)
        take == green /\ d2 < Sq(AcquireRadius)
    IN  IF d2 < Sq(ApproachRadius) /\ Dot(to_light, dir_vec) > 0
        THEN [max_speed |-> IF red_stop THEN 0 ELSE st.max_speed,
              occupied |-> IF take THEN Acquire(st.occupied, i, self.id) ELSE st.occupied,
              target |-> IF take THEN i ELSE st.target]
        ELSE st

\* lines 99-117, one light: st = [max_speed, occupied, target].
LightStep(self, dir_vec, lt, i, st) ==
    LET light_pos == <<lt.x, lt.y>>
        to_light == VSub(light_pos, self.pos)
        d2 == Len2(to_light)
        stop_point == VSub(light_pos, VScale(dir_vec, StopOffset))
        green == is_green_for(lt, dir_vec)
        red_stop == ~green /\ Len2(VSub(stop_point, self.pos)) < Sq(StopRadius)
        blocked == i \in DOMAIN st.occupied /\ st.occupied[i] # self.id
                   /\ d2 < Sq(BlockRadius)
        take == green /\ d2 < Sq(AcquireRadius)
    IN  IF d2 < Sq(ApproachRadius) /\ Dot(to_light, dir_vec) > 0
        THEN [max_speed |-> IF red_stop \/ blocked THEN 0 ELSE st.max_speed,
              occupied |-> IF take THEN Acquire(st.occupied, i, self.id) ELSE st.occupied,
              target |-> IF take THEN i ELSE st.target]
        ELSE st

RECURSIVE LightLoop(_, _, _, _, _)
LightLoop(self, dir_vec, ls, i, st) ==
    IF i > Len(ls) THEN st
    ELSE LightLoop(self, dir_vec, ls, i + 1, LightStep(self, dir_vec, ls[i], i, st))

\* line 122: the held light is farther away than the release radius
ReleaseFires(self, ls, target) ==
    target # 0 /\ Len2(VSub(self.pos, <<ls[target].x, ls[target].y>>)) > Sq(ReleaseRadius)

\* A no_entry branch that only holds a car standing at a node.
NoEntryAtNode(self, dir_vec, syms) ==
    /\ self.progress = 0
    /\ \E k \in 1..Len(syms) :
        LET sym_vec == VSub(<<syms[k].x, syms[k].y>>, self.pos)
        IN  syms[k].type = "no_entry" /\ Dot(sym_vec, dir_vec) > 0
            /\ Len2(sym_vec) < Sq(SymbolRadius)

\* A symbol loop without the no_entry branch.
NoEntryNever(self, dir_vec, syms) == FALSE

\* lines 128-134: "return" when a no_entry symbol is ahead within its radius
NoEntryAhead(self, dir_vec, syms) ==
    \E k \in 1..Len(syms) :
        LET sym_vec == VSub(<<syms[k].x, syms[k].y>>, self.pos)
        IN  syms[k].type = "no_entry" /\ Dot(sym_vec, dir_vec) > 0
            /\ Len2(sym_vec) < Sq(SymbolRadius)

SlowNear(self, syms) ==
    \E k \in 1..Len(syms) :
        syms[k].type = "slow"
        /\ Len2(VSub(<<syms[k].x, syms[k].y>>, self.pos)) < Sq(SymbolRadius)

\* lines 150-156
lane_offset(road_type, dir_vec) ==
    LET perp == <<0 - dir_vec[2], dir_vec[1]>>
    IN  IF road_type # "big" THEN <<0, 0>>
        ELSE IF Abs(dir_vec[1]) >= Abs(dir_vec[2])
        THEN VScale(perp, IF dir_vec[1] > 0 THEN LaneOffset ELSE 0 - LaneOffset)
        ELSE VScale(perp, IF dir_vec[2] > 0 THEN LaneOffset ELSE 0 - LaneOffset)

\* A move that carries the overshoot beyond the edge end into the next edge.
MoveCarry(self, nodes, a, dir_vec, edge_len, road_type, max_speed, dt) ==
    LET move == (max_speed * dt) \div MsPerSecond
        progress == self.progress + move
    IN  IF progress >= edge_len
        THEN IF self.edge_idx + 2 >= Len(self.path)
             THEN [self EXCEPT !.progress = progress, !.edge_idx = @ + 1,
                               !.pos = nodes[self.path[Len(self.path)]],
                               !.finished = TRUE]
             ELSE [self EXCEPT !.progress = progress - edge_len, !.edge_idx = @ + 1,
                               !.pos = nodes[self.path[self.edge_idx + 2]]]
        ELSE [self EXCEPT !.progress = progress,
                          !.pos = VAdd(VAdd(a, VScale(dir_vec, progress)),
                                       lane_offset(road_type, dir_vec))]

\* A move that keeps the progress it has reached when it advances to the next
\* edge.
MoveNoReset(self, nodes, a, dir_vec, edge_len, road_type, max_speed, dt) ==
    LET move == (max_speed * dt) \div MsPerSecond
        progress == self.progress + move
    IN  IF progress >= edge_len
        THEN IF self.edge_idx + 2 >= Len(self.path)
             THEN [self EXCEPT !.progress = progress, !.edge_idx = @ + 1,
                               !.pos = nodes[self.path[Len(self.path)]],
                               !.finished = TRUE]
             ELSE [self EXCEPT !.progress = progress, !.edge_idx = @ + 1,
                               !.pos = nodes[self.path[self.edge_idx + 2]]]
        ELSE [self EXCEPT !.progress = progress,
                          !.pos = VAdd(VAdd(a, VScale(dir_vec, progress)),
                                       lane_offset(road_type, dir_vec))]

\* lines 136-157.  The field progress holds progress * edge_len, the pixels
\* travelled on the current edge, so that progress >= 1.0 reads
\* progress >= edge_len.
Move(self, nodes, a, dir_vec, edge_len, road_type, max_speed, dt) ==
    LET move == (max_speed * dt) \div MsPerSecond
        progress == self.progress + move
    IN  IF progress >= edge_len
        THEN IF self.edge_idx + 2 >= Len(self.path)
             THEN [self EXCEPT !.progress = progress, !.edge_idx = @ + 1,
                               !.pos = nodes[self.path[Len(self.path)]],
                               !.finished = TRUE]
             ELSE [self EXCEPT !.progress = 0, !.edge_idx = @ + 1,
                               !.pos = nodes[self.path[self.edge_idx + 2]]]
        ELSE [self EXCEPT !.progress = progress,
                          !.pos = VAdd(VAdd(a, VScale(dir_vec, progress)),
                                       lane_offset(road_type, dir_vec))]

\* The element of a one-element set.  A name bound by a set constructor holds
\* a value that is computed once.
The(S) == CHOOSE x \in S : TRUE

\* lines 127-157: the symbols and the move, for the car as the release step
\* left it.
AfterRelease(held, occ2, rel, sim, a, dir_vec, edge_len, road_type, max_speed, dt) ==
    IF NoEntryAhead(held, dir_vec, sim.symbols)
    THEN [car |-> held, occupied |-> occ2, raised |-> FALSE, rel |-> rel]
    ELSE [car |-> Move(held, sim.nodes, a, dir_vec, edge_len, road_type, max_speed, dt),
          occupied |-> occ2, raised |-> FALSE, rel |-> rel]

\* lines 119-157: the release step and what follows it, when the loop over
\* the lights has ended with st.
AfterLights(self, sim, dt, a, dir_vec, edge_len, road_type, st) ==
    LET fires == ReleaseFires(self, sim.lights, st.target)
        occ2 == IF fires THEN Release(st.occupied, st.target, self.id) ELSE st.occupied
        max_speed == IF SlowNear(self, sim.symbols) THEN Min(st.max_speed, SlowSpeed)
                     ELSE st.max_speed
        rel == [fired |-> fires, light |-> st.target, occupied |-> st.occupied]
    IN  The({AfterRelease(held, occ2, rel, sim, a, dir_vec, edge_len, road_type,
                          max_speed, dt) :
             held \in {[self EXCEPT !.intersection_target =
                                        IF fires THEN 0 ELSE st.target]}})

\* Car.update(dt) for the car `self` of sim: the car afterwards, the registry
\* afterwards, whether the call raised (normalize() of a zero vector), and
\* what the release step saw (for the properties below).
CarUpdate(self, sim, dt) ==
    LET n1 == self.path[self.edge_idx + 1]
        n2 == self.path[self.edge_idx + 2]
        a == sim.nodes[n1]
        b == sim.nodes[n2]
        edge_vec == VSub(b, a)
        edge_len == IF Len2(edge_vec) # 0 THEN ISqrt(Len2(edge_vec)) ELSE 1
        dir_vec == Normalize(edge_vec)
        road_type == get_edge_type(sim.roads, 1, n1, n2)
        gap2 == LeaderGap2(self, dir_vec, sim.cars, 1, 0 - 1)
        norel == [fired |-> FALSE, light |-> 0, occupied |-> sim.occupied]
    IN  IF self.finished
        THEN [car |-> self, occupied |-> sim.occupied, raised |-> FALSE, rel |-> norel]
        ELSE IF self.edge_idx + 1 >= Len(self.path)
        THEN [car |-> [self EXCEPT !.finished = TRUE], occupied |-> sim.occupied,
              raised |-> FALSE, rel |-> norel]
        ELSE IF Len2(edge_vec) = 0
        THEN [car |-> self, occupied |-> sim.occupied, raised |-> TRUE, rel |-> norel]
        ELSE The({AfterLights(self, sim, dt, a, dir_vec, edge_len, road_type, st) :
                  st \in {LightLoop(self, dir_vec, sim.lights, 1,
                                    [max_speed |-> FollowSpeed(self.speed, gap2),
                                     occupied |-> sim.occupied,
                                     target |-> self.intersection_target])}})


\* ------------------------------------------------------------ the program
\* Map documents (the JSON the simulator loads).
\* RoadMap: one big horizontal road with a light at its midpoint; hub 1
\* beyond its east end, hub 2 on a spur above the light, hub 3 far from every
\* road.  The light starts green for vertical travel (1 s), then is green for
\* horizontal travel (2 s).
RoadMap ==
    [roads |-> <<[id |-> 1, x |-> 40, y |-> 90, w |-> 80, h |-> 20, type |-> "big"]>>,
     hubs |-> <<[id |-> 1, x |-> 160, y |-> 100], [id |-> 2, x |-> 80, y |-> 70],
                [id |-> 3, x |-> 400, y |-> 400]>>,
     lights |-> <<[x |-> 80, y |-> 100, green |-> 2, red |-> 1, offset |-> 2]>>,
     symbols |-> <<>>]

\* LightMap: no road, one light; the timings of the light vary.
LightMap(green, red, offset) ==
    [roads |-> <<>>, hubs |-> <<>>,
     lights |-> <<[x |-> 80, y |-> 100, green |-> green, red |-> red, offset |-> offset]>>,
     symbols |-> <<>>]

\* SymbolMap: the same road as a small road without a light, hubs 1 and 2, and
\* a no_entry symbol on the west half of the centreline.
SymbolMap ==
    [roads |-> <<[id |-> 1, x |-> 40, y |-> 90, w |-> 80, h |-> 20, type |-> "small"]>>,
     hubs |-> <<[id |-> 1, x |-> 160, y |-> 100], [id |-> 2, x |-> 80, y |-> 70]>>,
     lights |-> <<>>,
     symbols |-> <<[x |-> 60, y |-> 100, type |-> "no_entry"]>>]

Maps == {RoadMap, SymbolMap} \cup {LightMap(g, 4, o) : g \in {1, 6}, o \in {0, 1, 5}}

\* random.uniform(-15, 15) added to 80: two of the speeds a car can get.
SpeedSet == {70, 90}
\* clock.tick(60): the frame time in milliseconds.
DtSet == {200}

VARIABLES
    mapdata,      \* Simulator.map
    nodes,        \* Simulator.nodes
    edges,        \* Simulator.edges
    lights,       \* Simulator.lights
    cars,         \* Simulator.cars
    next_car_id,  \* Simulator.next_car_id
    occupied,     \* Simulator.occupied: light (its index in lights) -> car id
    pc,           \* "idle" between frames, "update" inside Simulator.update, "crashed"
    snapshot,     \* list(self.cars) of the running Simulator.update, as car ids
    idx,          \* position of the loop of line 199 in that list
    dt,           \* the dt of the running Simulator.update
    clock,        \* history: the sum of all dt so far
    updated,      \* history: the cars updated so far in this tick, in order
    last          \* history: what the last step did and what it saw

vars == <<mapdata, nodes, edges, lights, cars, next_car_id, occupied, pc,
          snapshot, idx, dt, clock, updated, last>>

Ids(cs) == [i \in 1..Len(cs) |-> cs[i].id]
HubIds == {HubId(mapdata.hubs[i].id) : i \in 1..Len(mapdata.hubs)}

\* Simulator.__init__
SimInit(m) ==
    LET g == build_graph(m)
    IN  /\ mapdata = m
        /\ nodes = g.nodes
        /\ edges = g.edges
        /\ lights = [i \in 1..Len(m.lights) |-> TrafficLight(m.lights[i])]
        /\ cars = <<>>
        /\ next_car_id = 1
        /\ occupied = <<>>

Init ==
    /\ \E m \in Maps : SimInit(m)
    /\ pc = "idle"
    /\ snapshot = <<>>
    /\ idx = 0
    /\ dt = 0
    /\ clock = 0
    /\ updated = <<>>
    /\ last = [op |-> "init"]

\* A spawn that only rejects a missing path, not a path of one node.
spawn_car_unchecked(cs, cid, route, speed) ==
    IF route.kind # "path"
    THEN [cars |-> cs, next_car_id |-> cid, ret |-> FALSE]
    ELSE [cars |-> Append(cs, Car(route.path, nodes, cid, speed)),
          next_car_id |-> cid + 1, ret |-> TRUE]

\* Simulator.spawn_car, after the router has answered `route`.
spawn_car(cs, cid, route, speed) ==
    IF route.kind # "path" \/ Len(route.path) < 2
    THEN [cars |-> cs, next_car_id |-> cid, ret |-> FALSE]
    ELSE [cars |-> Append(cs, Car(route.path, nodes, cid, speed)),
          next_car_id |-> cid + 1, ret |-> TRUE]

\* What spawn_car does with the answer `route` of the router: a TypeError
\* out of find_path leaves the simulator as it was and ends run().
SpawnRouted(route, speed) ==
    LET r == spawn_car(cars, next_car_id, route, speed)
    IN  /\ pc' = IF route.kind = "error" THEN "crashed" ELSE "idle"
        /\ cars' = IF route.kind = "error" THEN cars ELSE r.cars
        /\ next_car_id' = IF route.kind = "error" THEN next_car_id ELSE r.next_car_id
        /\ last' = [op |-> "spawn", route |-> route, ret |-> r.ret, cars |-> cars,
                    next_car_id |-> next_car_id, occupied |-> occupied]

\* spawn_car(start_id, end_id), called between two frames by the hub timers
\* and by the mouse handler of run().
Spawn(start_id, end_id, speed) ==
    /\ pc = "idle"
    /\ next_car_id <= MaxSpawn
    /\ SpawnRouted(find_path(edges, start_id, end_id, <<>>), speed)
    /\ UNCHANGED <<mapdata, nodes, edges, lights, occupied, snapshot, idx, dt,
                   clock, updated>>

\* lines 197-198: every light timer advances
UpdateLights(ls, d) == [i \in 1..Len(ls) |-> LightUpdate(ls[i], d)]

\* A loop that walks self.cars itself while cars are removed from it.
LoopListLive(cs, snap) == cs

\* line 199: the list the loop walks, a copy of self.cars taken at loop entry
LoopList(cs, snap) == snap

\* cs.remove(car)
RemoveCar(cs, cid) ==
    LET k == CHOOSE i \in 1..Len(cs) : cs[i].id = cid
    IN  SubSeq(cs, 1, k - 1) \o SubSeq(cs, k + 1, Len(cs))

\* Simulator.update(dt), up to the first car of the loop.
TickStart(d) ==
    /\ pc = "idle"
    /\ clock + d <= MaxClock
    /\ lights' = UpdateLights(lights, d)
    /\ snapshot' = Ids(cars)
    /\ idx' = 1
    /\ dt' = d
    /\ clock' = clock + d
    /\ updated' = <<>>
    /\ pc' = IF cars = <<>> THEN "idle" ELSE "update"
    /\ last' = [op |-> "tick"]
    /\ UNCHANGED <<mapdata, nodes, edges, cars, next_car_id, occupied>>

\* lines 199-202, one iteration: car.update(dt), then the removal of a
\* finished car.
CarStep ==
    /\ pc = "update"
    /\ LET cid == LoopList(Ids(cars), snapshot)[idx]
           k == CHOOSE i \in 1..Len(cars) : cars[i].id = cid
           sim == [nodes |-> nodes, roads |-> mapdata.roads, cars |-> cars,
                   lights |-> lights, symbols |-> mapdata.symbols,
                   occupied |-> occupied]
       IN  \E r \in {CarUpdate(cars[k], sim, dt)} :
           \E cs2 \in {IF r.car.finished
                        THEN RemoveCar([cars EXCEPT ![k] = r.car], cid)
                        ELSE [cars EXCEPT ![k] = r.car]} :
               /\ cars' = cs2
               /\ occupied' = r.occupied
               /\ updated' = Append(updated, cid)
               /\ pc' = IF r.raised THEN "crashed"
                        ELSE IF idx + 1 > Len(LoopList(Ids(cs2), snapshot)) THEN "idle"
                        ELSE "update"
               /\ last' = [op |-> "update", id |-> cid, before |-> cars[k],
                           after |-> r.car, occupied |-> occupied, rel |-> r.rel]
    /\ idx' = idx + 1
    /\ UNCHANGED <<mapdata, nodes, edges, lights, next_car_id, snapshot, dt, clock>>

Next ==
    \/ \E start_id \in HubIds, end_id \in HubIds, speed \in SpeedSet :
           Spawn(start_id, end_id, speed)
    \/ \E d \in DtSet : TickStart(d)
    \/ CarStep

Spec == Init /\ [][Next]_vars


\* ------------------------------------------------------- the router, alone
\* Edge maps handed to find_path.  LineGraph: A - B (5), B - C (5).
LineGraph == Connect(Connect(EmptyGraph, "A", "B", 5), "B", "C", 5).edges

\* DiamondGraph: two routes of the same cost from A to D.
DiamondGraph ==
    Connect(Connect(Connect(Connect(EmptyGraph, "A", "B", 5), "A", "C", 5),
                    "B", "D", 5), "C", "D", 5).edges

\* DetourGraph: A - B (5), B - C (5) and the direct A - C (12).
DetourGraph ==
    Connect(Connect(Connect(EmptyGraph, "A", "B", 5), "B", "C", 5), "A", "C", 12).edges

\* TieMap: the road of RoadMap, hub 1 beyond its east end and hub 2 above its
\* midpoint, as far from the midpoint as the west end of the road is.
TieMap ==
    [roads |-> <<[id |-> 1, x |-> 40, y |-> 90, w |-> 80, h |-> 20, type |-> "big"]>>,
     hubs |-> <<[id |-> 1, x |-> 160, y |-> 100], [id |-> 2, x |-> 80, y |-> 60]>>,
     lights |-> <<>>, symbols |-> <<>>]

NoMap == [roads |-> <<>>, hubs |-> <<>>, lights |-> <<>>, symbols |-> <<>>]

RouteGraphs ==
    {LineGraph, DiamondGraph, DetourGraph, build_graph(RoadMap).edges,
     build_graph(TieMap).edges}

\* The keys a congestion table has for an edge map (the sorted pair of the
\* two ids, as find_path looks them up), and the tables tried: empty, or one
\* edge with one or two vehicles on it.
EdgeKeys(es) ==
    UNION {{EdgeKey(u, es[u][k][1]) : k \in 1..Len(es[u])} : u \in DOMAIN es}

Congestions(es) ==
    {<<>>} \cup {[x \in {key} |-> c] : key \in EdgeKeys(es), c \in {1, 2}}

\* The ids asked for: the nodes of the edge map and one id it does not have.
RouteIds(es) == (DOMAIN es) \cup {"E"}

RouteInit ==
    /\ edges \in RouteGraphs
    /\ mapdata = NoMap
    /\ nodes = <<>>
    /\ lights = <<>>
    /\ cars = <<>>
    /\ next_car_id = 1
    /\ occupied = <<>>
    /\ pc = "idle"
    /\ snapshot = <<>>
    /\ idx = 0
    /\ dt = 0
    /\ clock = 0
    /\ updated = <<>>
    /\ last = [op |-> "init"]

\* One call find_path(edges, start_id, goal_id, traffic_counts).
Route(start_id, goal_id, traffic_counts) ==
    /\ last' = [op |-> "route", start_id |-> start_id, goal_id |-> goal_id,
                traffic_counts |-> traffic_counts,
                result |-> find_path(edges, start_id, goal_id, traffic_counts)]
    /\ UNCHANGED <<mapdata, nodes, edges, lights, cars, next_car_id, occupied, pc,
                   snapshot, idx, dt, clock, updated>>

RouteNext ==
    \E start_id \in RouteIds(edges), goal_id \in RouteIds(edges),
       traffic_counts \in Congestions(edges) :
        Route(start_id, goal_id, traffic_counts)

RouteSpec == RouteInit /\ [][RouteNext]_vars


\* ------------------------------------------------------ the builder, alone
\* Road layouts of map documents (ids unique, sizes even so that every centre
\* is an integer).
Road(id, x, y, w, h) == [id |-> id, x |-> x, y |-> y, w |-> w, h |-> h, type |-> "big"]

RoadSets ==
    {<<>>,
     \* one horizontal road
     <<Road(1, 40, 90, 80, 20)>>,
     \* a crossing: the overlap centre is the midpoint of both roads
     <<Road(1, 40, 90, 80, 20), Road(2, 70, 40, 20, 120)>>,
     \* an L: the roads overlap at the east end of 1 and the north end of 2
     <<Road(1, 0, 0, 120, 20), Road(2, 100, 0, 20, 120)>>,
     \* two roads that touch along an edge
     <<Road(1, 0, 90, 80, 20), Road(2, 80, 90, 80, 20)>>,
     \* a short road: its two ends are closer than the short gap
     <<Road(1, 40, 90, 20, 20)>>,
     \* two roads far apart
     <<Road(1, 40, 90, 80, 20), Road(2, 40, 300, 80, 20)>>,
     \* one road crossed by two
     <<Road(1, 40, 90, 80, 20), Road(2, 70, 40, 20, 120), Road(3, 100, 40, 20, 120)>>}

Hub(id, x, y) == [id |-> id, x |-> x, y |-> y]

HubSets ==
    {<<>>,
     <<Hub(1, 80, 60)>>,
     <<Hub(1, 80, 60), Hub(2, 400, 400)>>,
     \* two hubs far from every road, near each other
     <<Hub(1, 400, 400), Hub(2, 410, 400)>>,
     \* two hubs far from every road, at the same position
     <<Hub(1, 400, 400), Hub(2, 400, 400)>>,
     \* a hub near a road and a second hub nearer to the first than to the road
     <<Hub(1, 80, 60), Hub(2, 80, 50)>>}

BuildMaps ==
    {[roads |-> r, hubs |-> h, lights |-> <<>>, symbols |-> <<>>] :
        r \in RoadSets, h \in HubSets}

\* load_map_data has returned the document; build_graph has not run yet.
BuildInit ==
    /\ mapdata \in BuildMaps
    /\ nodes = <<>>
    /\ edges = <<>>
    /\ lights = <<>>
    /\ cars = <<>>
    /\ next_car_id = 1
    /\ occupied = <<>>
    /\ pc = "load"
    /\ snapshot = <<>>
    /\ idx = 0
    /\ dt = 0
    /\ clock = 0
    /\ updated = <<>>
    /\ last = [op |-> "init"]

\* self.nodes, self.edges = build_graph(self.map)
BuildWith(g) ==
    /\ nodes' = g.nodes
    /\ edges' = g.edges
    /\ last' = [op |-> "build", order |-> g.order]

Build ==
    /\ pc = "load"
    /\ BuildWith(build_graph(mapdata))
    /\ pc' = "idle"
    /\ UNCHANGED <<mapdata, lights, cars, next_car_id, occupied, snapshot, idx, dt,
                   clock, updated>>

\* find_path between two hubs of the built graph.
RouteHubs(start_id, goal_id) ==
    /\ pc = "idle"
    /\ Route(start_id, goal_id, <<>>)

BuildNext ==
    \/ Build
    \/ \E start_id \in HubIds, goal_id \in HubIds : RouteHubs(start_id, goal_id)

BuildSpec == BuildInit /\ [][BuildNext]_vars


\* ------------------------------------------------- one road, from end to end
\* One horizontal big road of length 200 (x = 0..200, centreline y = 100),
\* hub 1 at x = 0 and hub 2 at x = 200, no lights, no symbols.  A hub is on the
\* end of the centreline (y = 100) or beside the road (y = 120).
EndMap(y1, y2) ==
    [roads |-> <<Road(1, 0, 90, 200, 20)>>,
     hubs |-> <<Hub(1, 0, y1), Hub(2, 200, y2)>>,
     lights |-> <<>>, symbols |-> <<>>]

EndMaps == {EndMap(y1, y2) : y1, y2 \in {100, 120}}

\* 80 + random.uniform(-15, 15): the lowest and the highest cruising speed.
MinSpeed == 65
MaxSpeed == 95
EndSpeeds == {MinSpeed, MaxSpeed}

EndInit ==
    /\ \E m \in EndMaps : SimInit(m)
    /\ pc = "idle"
    /\ snapshot = <<>>
    /\ idx = 0
    /\ dt = 0
    /\ clock = 0
    /\ updated = <<>>
    /\ last = [op |-> "init"]

\* The one vehicle, from hub 1 to hub 2, spawned before the first frame.
EndSpawn(speed) ==
    /\ clock = 0
    /\ next_car_id = 1
    /\ Spawn(HubId(1), HubId(2), speed)

\* The frames after the spawn.
EndTick(d) ==
    /\ next_car_id > 1
    /\ TickStart(d)

EndNext ==
    \/ \E speed \in EndSpeeds : EndSpawn(speed)
    \/ \E d \in DtSet : EndTick(d)
    \/ CarStep

EndToEndSpec == EndInit /\ [][EndNext]_vars

\* ------------------------------------------------------------- properties
HorizontalDirs == {<<1, 0>>, <<0 - 1, 0>>}
VerticalDirs == {<<0, 1>>, <<0, 0 - 1>>}
Holders(L) == {i \in 1..Len(cars) : cars[i].intersection_target = L}
Without1(f, L) == [x \in (DOMAIN f) \ {L} |-> f[x]]

\* C1. Acquire never preempts: a light that the registry maps to another
\* vehicle when a vehicle's update starts is still mapped to that vehicle when
\* the update ends.
C1_NoPreemption ==
    last.op = "update" =>
        \A L \in DOMAIN last.occupied :
            last.occupied[L] # last.id =>
                L \in DOMAIN occupied /\ occupied[L] = last.occupied[L]

\* C2. Mutual exclusion of holders: for each light at most one active
\* vehicle has that light as its held reservation.
C2_HoldersExclusive ==
    \A L \in 1..Len(lights) : Cardinality(Holders(L)) <= 1

\* C3. Registry consistency: at the end of every tick each key of the
\* registry maps to an active, unfinished vehicle whose held reservation is
\* that light.
C3_RegistryConsistent ==
    pc = "idle" =>
        \A L \in DOMAIN occupied :
            \E i \in 1..Len(cars) :
                /\ cars[i].id = occupied[L]
                /\ ~cars[i].finished
                /\ cars[i].intersection_target = L

\* C4. Release only by the owner: when the release step of an update fires
\* for the held light L, the entry of L is removed if the registry maps L to
\* the updating vehicle, and the registry is left as it is otherwise.
C4_ReleaseOnlyByOwner ==
    (last.op = "update" /\ last.rel.fired) =>
        LET L == last.rel.light
            o == last.rel.occupied
        IN  IF L \in DOMAIN o /\ o[L] = last.id
            THEN occupied = Without1(o, L)
            ELSE occupied = o

\* The release step fired for a light that another vehicle owned.
C4_Witness ==
    /\ last.op = "update"
    /\ last.rel.fired
    /\ last.rel.light \in DOMAIN last.rel.occupied
    /\ last.rel.occupied[last.rel.light] # last.id

\* The release step fired for a light the vehicle owned itself.
C4_WitnessOwner ==
    /\ last.op = "update"
    /\ last.rel.fired
    /\ last.rel.light \in DOMAIN last.rel.occupied
    /\ last.rel.occupied[last.rel.light] = last.id

\* C5. Light alternation: for every light, at every elapsed time, exactly
\* one of a horizontal and a vertical direction is green.
C5_LightAlternation ==
    \A i \in 1..Len(lights) : \A h \in HorizontalDirs, v \in VerticalDirs :
        is_green_for(lights[i], h) # is_green_for(lights[i], v)

\* Some light has been advanced into its vertical phase.
C5_Witness ==
    /\ clock > 0
    /\ \E i \in 1..Len(lights) :
           is_green_for(lights[i], <<0, 1>>) /\ ~is_green_for(lights[i], <<1, 0>>)

\* C6. Light timing: a light's elapsed time is its phase offset plus the sum
\* of the tick durations, horizontal is green exactly when the elapsed time
\* modulo green + red is below green; with green 6 and red 4, horizontal is
\* green and vertical red at elapsed 3, and the reverse at elapsed 7.
C6_LightTiming ==
    \A i \in 1..Len(lights) :
        LET lt == lights[i]
            h == is_green_for(lt, <<1, 0>>)
            v == is_green_for(lt, <<0, 1>>)
        IN  /\ lt.t = lt.offset * MsPerSecond + clock
            /\ h <=> (lt.t % ((lt.green + lt.red) * MsPerSecond) < lt.green * MsPerSecond)
            /\ (lt.green = 6 /\ lt.red = 4 /\ lt.t = 3 * MsPerSecond) => (h /\ ~v)
            /\ (lt.green = 6 /\ lt.red = 4 /\ lt.t = 7 * MsPerSecond) => (~h /\ v)

\* A 6/4 light that ticks have brought to elapsed 7 s.
C6_Witness ==
    /\ clock > 0
    /\ \E i \in 1..Len(lights) :
           lights[i].green = 6 /\ lights[i].red = 4 /\ lights[i].t = 7 * MsPerSecond

\* A 6/4 light that ticks have brought to elapsed 3 s.
C6_Witness3 ==
    /\ clock > 0
    /\ \E i \in 1..Len(lights) :
           lights[i].green = 6 /\ lights[i].red = 4 /\ lights[i].t = 3 * MsPerSecond

\* C7. Tick ordering: when a vehicle is updated every light timer has been
\* advanced for this tick; the vehicles active at the start of the tick are
\* updated once each, in spawn order, also when one of them finishes and is
\* removed.
C7_TickOrdering ==
    /\ last.op = "update" =>
           \A i \in 1..Len(lights) : lights[i].t = lights[i].offset * MsPerSecond + clock
    /\ \A i, j \in 1..Len(snapshot) : i < j => snapshot[i] < snapshot[j]
    /\ pc = "update" => updated = SubSeq(snapshot, 1, idx - 1)
    /\ (pc = "idle" /\ last.op = "update") => updated = snapshot

\* A tick has ended in which the first of two vehicles finished and was
\* removed, and the second was updated after it.
C7_Witness ==
    /\ pc = "idle"
    /\ last.op = "update"
    /\ Len(snapshot) = 2
    /\ Ids(cars) = <<snapshot[2]>>
    /\ updated = snapshot

\* C8. Spawn rejection: spawn appends exactly one vehicle, with a fresh id
\* and the routed path, if and only if the router returned a path of at least
\* two nodes; otherwise it reports rejection and leaves the vehicle list, the
\* id counter and the registry as they were.  Every active vehicle has a path
\* of at least two nodes.
C8_SpawnRejection ==
    /\ last.op = "spawn" =>
           IF last.route.kind = "path" /\ Len(last.route.path) >= 2
           THEN /\ last.ret
                /\ cars = Append(last.cars, cars[Len(cars)])
                /\ cars[Len(cars)].id = last.next_car_id
                /\ \A i \in 1..Len(last.cars) : last.cars[i].id # last.next_car_id
                /\ cars[Len(cars)].path = last.route.path
                /\ next_car_id = last.next_car_id + 1
                /\ occupied = last.occupied
           ELSE /\ ~last.ret
                /\ cars = last.cars
                /\ next_car_id = last.next_car_id
                /\ occupied = last.occupied
    /\ \A i \in 1..Len(cars) : Len(cars[i].path) >= 2

\* A spawn between a hub and itself was rejected: the router returned a path
\* of one node.
C8_Witness ==
    /\ last.op = "spawn"
    /\ last.route.kind = "path"
    /\ Len(last.route.path) = 1
    /\ ~last.ret
    /\ cars # <<>>

\* A spawn towards the unconnected hub was rejected: no route.
C8_WitnessNone ==
    /\ last.op = "spawn"
    /\ last.route.kind = "none"
    /\ ~last.ret

\* A spawn was accepted.
C8_WitnessAccepted ==
    /\ last.op = "spawn"
    /\ last.ret

\* The cost of the step u - v: the least weight of an edge from u to v plus
\* ten times the congestion count of the undirected edge.
HasEdge(es, u, v) == \E k \in 1..Len(es[u]) : es[u][k][1] = v
EdgeCost(es, tc, u, v) ==
    LET ws == {es[u][k][2] : k \in {j \in 1..Len(es[u]) : es[u][j][1] = v}}
    IN  (CHOOSE w \in ws : \A x \in ws : w <= x) + 10 * TrafficGet(tc, EdgeKey(u, v))

IsRoute(es, p, s, g) ==
    /\ Len(p) >= 1
    /\ p[1] = s
    /\ p[Len(p)] = g
    /\ \A i \in 1..Len(p) : p[i] \in DOMAIN es
    /\ \A i \in 1..(Len(p) - 1) : HasEdge(es, p[i], p[i + 1])

RECURSIVE RouteCost(_, _, _, _)
RouteCost(es, tc, p, i) ==
    IF i >= Len(p) THEN 0
    ELSE EdgeCost(es, tc, p[i], p[i + 1]) + RouteCost(es, tc, p, i + 1)

\* All routes without a repeated node from s to g.
SimpleRoutes(es, s, g) ==
    IF s \notin DOMAIN es \/ g \notin DOMAIN es THEN {}
    ELSE {p \in UNION {[1..n -> DOMAIN es] : n \in 1..Cardinality(DOMAIN es)} :
            /\ IsRoute(es, p, s, g)
            /\ \A i, j \in 1..Len(p) : i # j => p[i] # p[j]}

\* C9. Router correctness: route returns a path from start to goal along
\* existing edges of minimum total cost (weight + 10 x congestion count per
\* edge) when one exists, and unreachable exactly when start or goal is not in
\* the edge map or no path exists; on the line graph A - B (5), B - C (5),
\* route(A, C) is [A, B, C] with cost 10.
C9_RouterCorrect ==
    last.op = "route" =>
        LET r == last.result
            s == last.start_id
            g == last.goal_id
            tc == last.traffic_counts
            routes == SimpleRoutes(edges, s, g)
        IN  /\ r.kind = "none" <=> routes = {}
            /\ r.kind = "path" <=> routes # {}
            /\ r.kind = "path" =>
                   /\ IsRoute(edges, r.path, s, g)
                   /\ \A p \in routes :
                          RouteCost(edges, tc, r.path, 1) <= RouteCost(edges, tc, p, 1)
            /\ (edges = LineGraph /\ s = "A" /\ g = "C" /\ tc = <<>>) =>
                   /\ r = PathResult(<<"A", "B", "C">>)
                   /\ RouteCost(edges, tc, r.path, 1) = 10

\* ------------------------------------------------- properties of the builder
\* build_graph has returned and its result is stored.
Built == pc = "idle" /\ mapdata \in BuildMaps

\* (v, w) is in the adjacency list of u
Listed(es, u, v, w) == u \in DOMAIN es /\ \E k \in 1..Len(es[u]) : es[u][k] = <<v, w>>

\* The squared distance of two nodes of the stored graph.
NodeGap2(u, v) == Len2(VSub(nodes[u], nodes[v]))

\* The edges the four stages add: between nodes of one road, to an
\* intersection node, between nodes of different roads, to a hub.
ChainEdge(u, v) == \E rid \in 1..9 : StartsWithRoad(u, rid) /\ StartsWithRoad(v, rid)
InterEdge(u, v) == \E a, b \in 1..9 : u = InterId(a, b) \/ v = InterId(a, b)
CrossEdge(u, v) ==
    \E a, b \in 1..9 : a # b /\ StartsWithRoad(u, a) /\ StartsWithRoad(v, b)
HubEdge(u, v) == IsInt(u) \/ IsInt(v)

\* C11. Edge symmetry: for every map with ids unique within their kind, the
\* graph build_graph returns has u with weight w in the adjacency list of v
\* whenever it has v with weight w in the adjacency list of u, for the edges
\* of all four stages.
C11_EdgeSymmetry ==
    Built =>
        \A u \in DOMAIN edges : \A k \in 1..Len(edges[u]) :
            Listed(edges, edges[u][k][1], u, edges[u][k][2])

\* A built graph with an edge of each stage: a road chain, an intersection, a
\* stitched pair of two roads' nodes and an attached hub.
C11_Witness ==
    /\ Built
    /\ \E u \in DOMAIN edges : \E k \in 1..Len(edges[u]) : ChainEdge(u, edges[u][k][1])
    /\ \E u \in DOMAIN edges : \E k \in 1..Len(edges[u]) :
           InterEdge(u, edges[u][k][1]) /\ ~HubEdge(u, edges[u][k][1])
    /\ \E u \in DOMAIN edges : \E k \in 1..Len(edges[u]) : CrossEdge(u, edges[u][k][1])
    /\ \E u \in DOMAIN edges : \E k \in 1..Len(edges[u]) : HubEdge(u, edges[u][k][1])

\* The two rectangles share a region of positive area: each begins, on both
\* axes, before the other ends.
PositiveOverlap(a, b) ==
    /\ a.x < b.x + b.w /\ b.x < a.x + a.w
    /\ a.y < b.y + b.h /\ b.y < a.y + a.h

\* The rectangles meet but share no area: along an edge or at a corner.
Touching(a, b) ==
    /\ ~PositiveOverlap(a, b)
    /\ a.x <= b.x + b.w /\ b.x <= a.x + a.w
    /\ a.y <= b.y + b.h /\ b.y <= a.y + a.h

\* The centre of the shared region.
OverlapCentre(a, b) ==
    <<(Max(a.x, b.x) + Min(a.x + a.w, b.x + b.w)) \div 2,
      (Max(a.y, b.y) + Min(a.y + a.h, b.y + b.h)) \div 2>>

\* The ids an intersection node can have.
InterIds == {InterId(a, b) : a, b \in 1..9}

\* Node n has an edge to a node of road rid than which no node of that road is
\* nearer to n.
NearestLinked(n, rid) ==
    \E k \in 1..Len(edges[n]) :
        /\ StartsWithRoad(edges[n][k][1], rid)
        /\ \A m \in DOMAIN nodes :
               StartsWithRoad(m, rid) => NodeGap2(n, edges[n][k][1]) <= NodeGap2(n, m)

\* The pairs of roads of the map, in document order.
RoadPairs == {p \in (1..Len(mapdata.roads)) \X (1..Len(mapdata.roads)) : p[1] < p[2]}

\* C12. Intersection nodes: for every unordered pair of roads build_graph
\* creates exactly one intersection node, at the centre of the overlap and
\* connected to the nearest road node of each of the two roads, when the
\* rectangles overlap with positive area, and no intersection node for the
\* pair when they do not overlap or only touch.
C12_IntersectionNodes ==
    Built =>
        /\ \A p \in RoadPairs :
               LET a == mapdata.roads[p[1]]
                   b == mapdata.roads[p[2]]
                   n == InterId(a.id, b.id)
               IN  /\ InterId(b.id, a.id) \notin DOMAIN nodes
                   /\ IF PositiveOverlap(a, b)
                      THEN /\ n \in DOMAIN nodes
                           /\ nodes[n] = OverlapCentre(a, b)
                           /\ NearestLinked(n, a.id)
                           /\ NearestLinked(n, b.id)
                      ELSE n \notin DOMAIN nodes
        /\ Cardinality(DOMAIN nodes \cap InterIds)
               = Cardinality({p \in RoadPairs :
                                PositiveOverlap(mapdata.roads[p[1]], mapdata.roads[p[2]])})

\* A built map with a pair of roads that overlap and a pair that do not.
C12_Witness ==
    /\ Built
    /\ \E p \in RoadPairs : PositiveOverlap(mapdata.roads[p[1]], mapdata.roads[p[2]])
    /\ \E p \in RoadPairs : ~PositiveOverlap(mapdata.roads[p[1]], mapdata.roads[p[2]])

\* A built map with two roads that only touch.
C12_WitnessTouching ==
    /\ Built
    /\ \E p \in RoadPairs : Touching(mapdata.roads[p[1]], mapdata.roads[p[2]])

\* The road and intersection nodes of the stored graph.
RoadDerived == {n \in DOMAIN nodes : ~IsInt(n)}

\* The hubs of the map with a road-derived node within the snap distance,
\* and the hubs without one.
NearHubs ==
    {HubId(mapdata.hubs[k].id) : k \in {j \in 1..Len(mapdata.hubs) :
        \E n \in RoadDerived : NodeGap2(HubId(mapdata.hubs[j].id), n) <= Sq(hub_snap_dist)}}
FarHubs == {HubId(mapdata.hubs[k].id) : k \in 1..Len(mapdata.hubs)} \ NearHubs

\* C13. Hub attachment: after build_graph a hub within the snap distance (80)
\* of a road node has exactly one edge, to the nearest such road node; a hub
\* farther than that from every road-derived node has no edge, also when
\* another hub lies near it or at its position; and route never returns a
\* path that starts or ends at such a hub.
C13_HubAttachment ==
    Built =>
        /\ \A h \in NearHubs :
               /\ Len(edges[h]) = 1
               /\ edges[h][1][1] \in RoadDerived
               /\ \A n \in RoadDerived : NodeGap2(h, edges[h][1][1]) <= NodeGap2(h, n)
        /\ \A h \in FarHubs : Len(edges[h]) = 0
        /\ (last.op = "route" /\ last.result.kind = "path") =>
               /\ last.result.path[1] \notin FarHubs
               /\ last.result.path[Len(last.result.path)] \notin FarHubs

\* 200 / min_speed simulated seconds, in milliseconds.
Deadline == (200 * MsPerSecond) \div MinSpeed

\* C14. End-to-end completion: on a map with one horizontal big road of length
\* 200, hub 1 at x = 0, hub 2 at x = 200 and no lights or symbols, spawning a
\* vehicle from hub 1 to hub 2 yields a path of 2 to 5 nodes; under repeated
\* ticks every update of the vehicle completes, the vehicle is finished within
\* 200 / min_speed simulated seconds, and a finished vehicle is not in the
\* active list.
C14_EndToEnd ==
    mapdata \in EndMaps =>
        /\ last.op = "spawn" =>
               /\ last.route.kind = "path"
               /\ Len(last.route.path) \in 2..5
               /\ last.ret
        /\ pc # "crashed"
        /\ cars # <<>> => clock <= Deadline
        /\ \A i \in 1..Len(cars) : ~cars[i].finished

\* -------------------------------------------- properties of a car's update
\* The direction of the edge the car is on: the unit vector from the node it
\* left to the node it heads for.
Heading(c) == Normalize(VSub(nodes[c.path[c.edge_idx + 2]], nodes[c.path[c.edge_idx + 1]]))

\* The point q is ahead of car c, and nearer to it than r.
AheadWithin(c, q, r) ==
    /\ Dot(VSub(q, c.pos), Heading(c)) > 0
    /\ Len2(VSub(q, c.pos)) < Sq(r)

\* Car c has a no_entry symbol ahead within the symbol radius.
FacesNoEntry(c) ==
    \E k \in 1..Len(mapdata.symbols) :
        /\ mapdata.symbols[k].type = "no_entry"
        /\ AheadWithin(c, <<mapdata.symbols[k].x, mapdata.symbols[k].y>>, SymbolRadius)

\* C15. No-entry stop: in any tick in which a no_entry symbol lies within
\* radius 50 of a vehicle and ahead of it (positive dot product with the
\* direction of the vehicle's current edge), the vehicle's position, progress,
\* edge index and finished flag are unchanged by that tick's update.
C15_NoEntryStop ==
    (last.op = "update" /\ ~last.before.finished /\ FacesNoEntry(last.before)) =>
        /\ last.after.pos = last.before.pos
        /\ last.after.progress = last.before.progress
        /\ last.after.edge_idx = last.before.edge_idx
        /\ last.after.finished = last.before.finished

\* A car that has moved along the road is updated with the no_entry symbol
\* ahead within the radius.
C15_Witness ==
    /\ last.op = "update"
    /\ FacesNoEntry(last.before)
    /\ last.before.edge_idx > 0
    /\ last.before.progress > 0

\* A car is updated on its first edge with the symbol ahead within the radius.
C15_WitnessAtSpawn ==
    /\ last.op = "update"
    /\ FacesNoEntry(last.before)
    /\ last.before.edge_idx = 0
    /\ last.before.progress = 0

\* The three stop conditions for car c, when the registry is occ: another
\* active car ahead, nearer than the hard minimum gap; a light ahead within
\* the approach radius, red for the heading of c, with c nearer to its stop
\* point than the stop radius; a light ahead within the block radius that is
\* reserved by another car.
LeaderTooClose(c) ==
    \E i \in 1..Len(cars) :
        /\ cars[i].id # c.id
        /\ ~cars[i].finished
        /\ AheadWithin(c, cars[i].pos, HardGap)

RedAhead(c) ==
    \E i \in 1..Len(lights) :
        /\ AheadWithin(c, <<lights[i].x, lights[i].y>>, ApproachRadius)
        /\ ~is_green_for(lights[i], Heading(c))
        /\ Len2(VSub(VSub(<<lights[i].x, lights[i].y>>, VScale(Heading(c), StopOffset)),
                     c.pos)) < Sq(StopRadius)

ReservedAhead(c, occ) ==
    \E i \in 1..Len(lights) :
        /\ AheadWithin(c, <<lights[i].x, lights[i].y>>, BlockRadius)
        /\ i \in DOMAIN occ
        /\ occ[i] # c.id

\* C16. Stop rules are absolute: in any tick in which a stop condition holds
\* for a vehicle (a leader ahead closer than 18; a light ahead within 80, red
\* for the vehicle's direction, with the vehicle within 35 of the stop point;
\* a light ahead within 60 reserved by a different vehicle, whatever its
\* phase) the vehicle's progress and edge index do not increase in that tick.
C16_StopRulesAbsolute ==
    (/\ last.op = "update"
     /\ ~last.before.finished
     /\ \/ LeaderTooClose(last.before)
        \/ RedAhead(last.before)
        \/ ReservedAhead(last.before, last.occupied)) =>
        /\ last.after.progress <= last.before.progress
        /\ last.after.edge_idx <= last.before.edge_idx

\* A car is updated in front of a light that is green for it and reserved by
\* another car, with no leader too close.
C16_Witness ==
    /\ last.op = "update"
    /\ ReservedAhead(last.before, last.occupied)
    /\ ~RedAhead(last.before)
    /\ ~LeaderTooClose(last.before)
    /\ last.before.speed > 0

\* A car is updated with only a leader too close, and with only a red light.
C16_WitnessLeader ==
    /\ last.op = "update"
    /\ LeaderTooClose(last.before)
    /\ ~RedAhead(last.before)
    /\ ~ReservedAhead(last.before, last.occupied)

C16_WitnessRed ==
    /\ last.op = "update"
    /\ RedAhead(last.before)
    /\ ~LeaderTooClose(last.before)
    /\ ~ReservedAhead(last.before, last.occupied)

\* The length of the edge car c is on.
EdgeLen(c) == ISqrt(NodeGap2(c.path[c.edge_idx + 1], c.path[c.edge_idx + 2]))

\* C17. Vehicle state bounds: after every update every vehicle that is not
\* finished has 0 <= edge index <= len(path) - 2 and 0 <= progress < 1 (here:
\* fewer pixels travelled on its edge than the edge is long); a progress that
\* reaches 1 is not kept across ticks.
C17_StateBounds ==
    \A i \in 1..Len(cars) :
        ~cars[i].finished =>
            /\ 0 <= cars[i].edge_idx
            /\ cars[i].edge_idx <= Len(cars[i].path) - 2
            /\ 0 <= cars[i].progress
            /\ cars[i].progress < EdgeLen(cars[i])

\* An update took a car past the end of an edge that is not its last one: the
\* car is still active, on the next edge.
C17_Witness ==
    /\ last.op = "update"
    /\ last.after.edge_idx = last.before.edge_idx + 1
    /\ ~last.after.finished
    /\ \E i \in 1..Len(cars) : cars[i] = last.after
    /\ last.before.progress + (last.before.speed * dt) \div MsPerSecond
           > EdgeLen(last.before)

\* C18. In-order traversal: an update leaves the path of the vehicle as it
\* was; the edge index does not decrease and increases by at most one; on an
\* advance progress is 0 and the position is the start node of the new edge
\* (overshoot is discarded); completing the final edge marks the vehicle
\* finished at the last node of its path, and only that does; finished is
\* never unset.
C18_InOrderTraversal ==
    last.op = "update" =>
        LET b == last.before
            a == last.after
            n == Len(b.path)
        IN  /\ a.path = b.path
            /\ a.edge_idx \in {b.edge_idx, b.edge_idx + 1}
            /\ (a.edge_idx = b.edge_idx + 1 /\ b.edge_idx + 2 < n) =>
                   /\ a.progress = 0
                   /\ a.pos = nodes[a.path[a.edge_idx + 1]]
                   /\ ~a.finished
            /\ (a.edge_idx = b.edge_idx + 1 /\ b.edge_idx + 2 = n) =>
                   /\ a.finished
                   /\ a.pos = nodes[a.path[n]]
            /\ a.edge_idx = b.edge_idx => (a.finished <=> b.finished)
            /\ b.finished => a.finished

\* An update completed the final edge of a path of at least three nodes.
C18_Witness ==
    /\ last.op = "update"
    /\ last.after.finished
    /\ ~last.before.finished
    /\ last.after.edge_idx = Len(last.after.path) - 1
    /\ Len(last.after.path) >= 3

\* An update went past the end of a non-final edge by some pixels.
C18_WitnessOvershoot ==
    /\ last.op = "update"
    /\ last.after.edge_idx = last.before.edge_idx + 1
    /\ ~last.after.finished
    /\ last.after.progress = 0
    /\ last.before.progress + (last.before.speed * dt) \div MsPerSecond
           > EdgeLen(last.before)

\* The road type of the edge car c is on, and the lane offset its position
\* carries: the position minus the point of the centreline it has reached.
EdgeType(c) == get_edge_type(mapdata.roads, 1, c.path[c.edge_idx + 1], c.path[c.edge_idx + 2])
OffsetOf(c) ==
    VSub(c.pos, VAdd(nodes[c.path[c.edge_idx + 1]], VScale(Heading(c), c.progress)))

\* The active cars that have moved along their edge.
Moving == {i \in 1..Len(cars) : ~cars[i].finished /\ cars[i].progress > 0}

\* C19. Lane separation: on an edge of a big road the lane offsets of a
\* vehicle travelling in direction d and of a vehicle travelling in direction
\* -d are opposite, nonzero vectors, for horizontal and for vertical d; on a
\* small road the offset is zero.
C19_LaneSeparation ==
    /\ \A i \in Moving : EdgeType(cars[i]) = "small" => OffsetOf(cars[i]) = <<0, 0>>
    /\ \A i, j \in Moving :
           (/\ EdgeType(cars[i]) = "big"
            /\ EdgeType(cars[j]) = "big"
            /\ Heading(cars[i]) = VScale(Heading(cars[j]), 0 - 1)) =>
               /\ OffsetOf(cars[i]) = VScale(OffsetOf(cars[j]), 0 - 1)
               /\ OffsetOf(cars[i]) # <<0, 0>>

\* u has v in its adjacency list
Adjacent(u, v) == \E k \in 1..Len(edges[u]) : edges[u][k][1] = v

\* C20. Proximity stitching without duplicates: after build_graph every pair
\* of distinct road-derived nodes (road and intersection nodes) nearer to each
\* other than the short-gap threshold (40) is directly connected, and no
\* adjacency list contains the same neighbour more than once.
C20_StitchNoDuplicates ==
    Built =>
        /\ \A u, v \in RoadDerived :
               (u # v /\ NodeGap2(u, v) < Sq(ShortGap)) => Adjacent(u, v) /\ Adjacent(v, u)
        /\ \A u \in DOMAIN edges : \A j, k \in 1..Len(edges[u]) :
               edges[u][j][1] = edges[u][k][1] => j = k

\* A built graph in which stage 3 met a pair of near nodes that an earlier
\* stage had connected, and a pair of near nodes of two different roads.
C20_Witness ==
    /\ Built
    /\ \E u, v \in RoadDerived :
           /\ u # v
           /\ NodeGap2(u, v) < Sq(ShortGap)
           /\ ChainEdge(u, v) \/ InterEdge(u, v)
    /\ \E u, v \in RoadDerived :
           /\ NodeGap2(u, v) < Sq(ShortGap)
           /\ CrossEdge(u, v)

\* ------------------------------------------------ properties of the router
\* C21. Router totality on ties: for every graph build_graph produces and
\* every start and goal, route returns a path or unreachable and raises no
\* error, also when two entries of the priority queue have the same cost and
\* name a hub node and a road node, or the same node with different paths.
C21_RouterTotal ==
    last.op = "route" => last.result.kind \in {"path", "none"}

\* ----------------------------------------- properties of zero-length edges
\* Car c is on an edge whose two nodes have the same position.
OnZeroEdge(c) == NodeGap2(c.path[c.edge_idx + 1], c.path[c.edge_idx + 2]) = 0

\* C22. Zero-length edges are survivable: the update of a vehicle that is on
\* an edge whose two nodes have the same position (a hub placed on a road
\* node, an intersection node on a road midpoint) completes without error and
\* the vehicle moves on to the next edge.
C22_ZeroEdgeSurvivable ==
    (last.op = "update" /\ ~last.before.finished /\ OnZeroEdge(last.before)) =>
        /\ pc # "crashed"
        /\ last.after.edge_idx = last.before.edge_idx + 1


\* ------------------------------------------- properties of car following
\* lines 81-91: car c selects car o as its leader: o is another active car,
\* ahead of c and nearer than the leader radius, and the loop over the cars
\* meets no such car that is nearer, and none as near earlier in the list.
Gap2(c, o) == Len2(VSub(o.pos, c.pos))
Candidate(c, o) ==
    o.id # c.id /\ ~o.finished /\ AheadWithin(c, o.pos, LeaderRadius)
SelectsLeader(i, j) ==
    /\ Candidate(cars[i], cars[j])
    /\ \A k \in 1..Len(cars) :
        Candidate(cars[i], cars[k]) =>
            \/ Gap2(cars[i], cars[k]) > Gap2(cars[i], cars[j])
            \/ Gap2(cars[i], cars[k]) = Gap2(cars[i], cars[j]) /\ k >= j

\* Cars i and j are active, each selects the other as its leader, and the gap
\* between them is below the hard minimum.
MutualStop(i, j) ==
    /\ i # j
    /\ ~cars[i].finished /\ ~cars[j].finished
    /\ SelectsLeader(i, j) /\ SelectsLeader(j, i)
    /\ Gap2(cars[i], cars[j]) < Sq(HardGap)

\* C23. No mutual following stop: in no reachable state do two active
\* vehicles each select the other as leader with a gap below 18, which would
\* give both speed 0 in the same tick.
C23_NoMutualStop ==
    \A i, j \in 1..Len(cars) : ~MutualStop(i, j)


\* ------------------------------------------ the simulator, running forever
\* The timer of a light, reduced modulo its cycle.  is_green_for reads t
\* only through t % cycle (line 32), so a light and its reduction give the
\* same answers now and after every further update.
Phase(lt) == [lt EXCEPT !.t = @ % ((lt.green + lt.red) * MsPerSecond)]

LiveInit ==
    /\ SimInit(RoadMap)
    /\ pc = "idle"
    /\ snapshot = <<>>
    /\ idx = 0
    /\ dt = 0
    /\ clock = 0
    /\ updated = <<>>
    /\ last = [op |-> "init"]

\* Simulator.update(dt), up to the first car of the loop, in a run without
\* an end: the light timers are kept reduced and the history of the elapsed
\* time is not kept.
LiveTick(d) ==
    /\ pc = "idle"
    /\ lights' = [i \in 1..Len(lights) |-> Phase(LightUpdate(lights[i], d))]
    /\ snapshot' = Ids(cars)
    /\ idx' = 1
    /\ dt' = d
    /\ updated' = <<>>
    /\ pc' = IF cars = <<>> THEN "idle" ELSE "update"
    /\ last' = [op |-> "tick"]
    /\ UNCHANGED <<mapdata, nodes, edges, cars, next_car_id, occupied, clock>>

\* One of the speeds a car can get.
LiveSpeeds == {90}

LiveNext ==
    \/ \E start_id \in HubIds, end_id \in HubIds, speed \in LiveSpeeds :
           Spawn(start_id, end_id, speed)
    \/ \E d \in DtSet : LiveTick(d)
    \/ CarStep

\* run() calls update once per frame for as long as the window is open, and
\* the loop of update visits every car of its list; nothing obliges a hub
\* timer or the mouse to spawn a car.
LiveSpec ==
    /\ LiveInit
    /\ [][LiveNext]_vars
    /\ WF_vars(\E d \in DtSet : LiveTick(d))
    /\ WF_vars(CarStep)

\* ------------------------------------------- properties of reservations
\* lines 110-113: light L, ahead of car c and within the block radius, is
\* reserved in the registry occ by another car.
ReservedBy(c, occ, L) ==
    /\ AheadWithin(c, <<lights[L].x, lights[L].y>>, BlockRadius)
    /\ L \in DOMAIN occ
    /\ occ[L] # c.id

\* The last step was the update of car b, which the reservation of light L
\* clamped to speed 0; and the update of car b, which it did not clamp.
ClampedBy(b, L) ==
    /\ last.op = "update" /\ last.id = b /\ ~last.before.finished
    /\ ReservedBy(last.before, last.occupied, L)
NotClampedBy(b, L) ==
    /\ last.op = "update" /\ last.id = b
    /\ ~ReservedBy(last.before, last.occupied, L)

\* C24. No permanent reservation blocking: on a map without symbols, whenever
\* a vehicle B is clamped to speed 0 because light L is reserved by another
\* vehicle, then after finitely many further ticks B is updated without
\* being clamped by a reservation of L.
C24_NoPermanentBlock ==
    \A b \in 1..MaxSpawn : \A L \in DOMAIN RoadMap.lights :
        ClampedBy(b, L) ~> NotClampedBy(b, L)


\* ----------------------------------------- properties of the no_entry stop
\* Car c is still in the simulator after the step, where it was: the same
\* position, progress and edge index, not finished, the no_entry symbol
\* still ahead of it within the radius (no step changes the map or the nodes).
HeldAfter(c) ==
    \E j \in 1..Len(cars') :
        /\ cars'[j].id = c.id
        /\ cars'[j].pos = c.pos
        /\ cars'[j].progress = c.progress
        /\ cars'[j].edge_idx = c.edge_idx
        /\ ~cars'[j].finished
        /\ FacesNoEntry(cars'[j])

\* C25. No-entry stop is permanent: a vehicle for which the no_entry
\* condition holds satisfies it after every later step of the simulator;
\* its position, progress and edge index do not change and it does not
\* become finished.
C25_NoEntryPermanent ==
    [][\A i \in 1..Len(cars) :
           (~cars[i].finished /\ FacesNoEntry(cars[i])) => HeldAfter(cars[i])]_vars

\* A car that has driven up to the symbol is updated two seconds or more into
\* the run, with the symbol ahead, and is left where it was.
C25_Witness ==
    /\ last.op = "update"
    /\ FacesNoEntry(last.before)
    /\ last.before.progress > 0
    /\ last.after.pos = last.before.pos
    /\ last.after.progress = last.before.progress
    /\ clock >= 2 * MsPerSecond

====
